---- MODULE Spec2Model ----
(***************************************************************************)
(* gitlab-ops-mcp: the tool handlers (src/tools/*.ts), the GitLab client   *)
(* (gitlab-client.ts) and the error classes (errors.ts) as a state machine,*)
(* and the HTTP server with its session tables (server.ts) as a second one.*)
(*                                                                         *)
(* A string is a sequence of tokens; a token is one character or a run of  *)
(* characters that no operation of the program looks inside.  A JSON value *)
(* is a record with a type tag, so that values of different JSON types can *)
(* be compared.                                                            *)
(***************************************************************************)
EXTENDS Integers, Sequences, FiniteSets, TLC

VARIABLES
    client,      \* the GitLabApiClient the tools were registered with:
                 \* "gitlab" (createGitLabClient) or "stub" (a test double)
    apiToken,    \* the credential the client was created with
    pc,          \* position of the invocation: "idle", "sent", "done"
    call,        \* the invocation: tool name and argument map
    clientCalls, \* calls made on the client by the current invocation
    fetches,     \* requests handed to fetch by the current invocation
    fetched,     \* what fetch did: rejected, or a response
    clientResult, \* what the client call returned or raised to the handler
    reads,       \* the reads of the response body request() has attempted
    result,      \* the tool result returned to the protocol layer
    transports,    \* server.ts: session id -> transport
    sessionTokens, \* server.ts: session id -> GitLab token
    instances,     \* the transports created, each with the request that
                   \* created it, its McpServer, its session id, closed or not
    inflight,      \* the POST /mcp requests whose handler is at an await
    res,           \* the last HTTP response sent
    invocations,   \* the tool invocations in flight on one server, each
                   \* with its arguments, its request and its result
    validation     \* validation.ts: the last call of a validator, with
                   \* its arguments and what it returned or raised

toolVars == <<client, apiToken, pc, call, clientCalls, fetches, fetched,
              clientResult, reads, result>>

httpVars == <<transports, sessionTokens, instances, inflight, res>>

auxVars == <<invocations, validation>>

vars == <<client, apiToken, pc, call, clientCalls, fetches, fetched,
          clientResult, reads, result,
          transports, sessionTokens, instances, inflight, res,
          invocations, validation>>

-----------------------------------------------------------------------------
(* Bounds of the model *)

MaxEdits == 2      \* arguments that differ from the minimal valid call
MaxSessions == 2   \* transports the HTTP server creates
MaxInflight == 2   \* POST /mcp requests in flight at once

-----------------------------------------------------------------------------
(* JSON values *)

\* s: the characters of a string, n: a number (1/0 for true/false),
\* a: the elements of an array of strings, o: the fields of an object in
\* insertion order, each [k |-> key, v |-> value]
Str(s)  == [t |-> "string",  s |-> s,    n |-> 0, a |-> <<>>, o |-> <<>>]
Num(n)  == [t |-> "number",  s |-> <<>>, n |-> n, a |-> <<>>, o |-> <<>>]
Bool(b) == [t |-> "boolean", s |-> <<>>, n |-> IF b THEN 1 ELSE 0,
            a |-> <<>>, o |-> <<>>]
Arr(a)  == [t |-> "array",   s |-> <<>>, n |-> 0, a |-> a,    o |-> <<>>]
Obj(o)  == [t |-> "object",  s |-> <<>>, n |-> 0, a |-> <<>>, o |-> o]
Null    == [t |-> "null",    s |-> <<>>, n |-> 0, a |-> <<>>, o |-> <<>>]
Undef   == [t |-> "undefined", s |-> <<>>, n |-> 0, a |-> <<>>, o |-> <<>>]

RECURSIVE Flatten(_)
Flatten(ss) == IF ss = <<>> THEN <<>> ELSE Head(ss) \o Flatten(Tail(ss))

RECURSIVE Join(_, _)
Join(ss, sep) ==
    IF ss = <<>> THEN <<>>
    ELSE IF Len(ss) = 1 THEN Head(ss)
    ELSE Head(ss) \o <<sep>> \o Join(Tail(ss), sep)

\* String(v) and `${v}` of JavaScript
String(v) ==
    CASE v.t = "string"    -> v.s
      [] v.t = "number"    -> <<ToString(v.n)>>
      [] v.t = "boolean"   -> IF v.n = 1 THEN <<"true">> ELSE <<"false">>
      [] v.t = "array"     -> Join(v.a, ",")
      [] v.t = "object"    -> <<"[object Object]">>
      [] v.t = "null"      -> <<"null">>
      [] v.t = "undefined" -> <<"undefined">>

\* obj.k of JavaScript on a value that is not null or undefined
Prop(v, k) ==
    IF v.t = "object" /\ \E i \in 1..Len(v.o) : v.o[i].k = k
    THEN v.o[CHOOSE i \in 1..Len(v.o) : v.o[i].k = k].v
    ELSE Undef

\* a ?? b
Nullish(v) == v.t \in {"null", "undefined"}

Spaces(n) == [i \in 1..n |-> " "]

\* JSON.stringify(v, null, indent); level is the nesting depth
RECURSIVE Stringify(_, _, _)
Stringify(v, indent, level) ==
    LET nl(l)  == IF indent = 0 THEN <<>> ELSE <<"\n">> \o Spaces(indent * l)
        colon  == IF indent = 0 THEN <<":">> ELSE <<":", " ">>
        quoted(s) == <<"\"">> \o s \o <<"\"">>
        items(seq) ==
            Flatten([i \in 1..Len(seq) |->
                        (IF i = 1 THEN <<>> ELSE <<",">>) \o nl(level + 1) \o seq[i]])
        defined(f) == f.v.t # "undefined"
        fields == SelectSeq(v.o, defined)   \* undefined properties are omitted
    IN  CASE v.t = "string"  -> quoted(v.s)
          [] v.t = "number"  -> <<ToString(v.n)>>
          [] v.t = "boolean" -> IF v.n = 1 THEN <<"true">> ELSE <<"false">>
          [] v.t = "null"    -> <<"null">>
          [] v.t = "array"   ->
                IF v.a = <<>> THEN <<"[", "]">>
                ELSE <<"[">> \o items([i \in 1..Len(v.a) |-> quoted(v.a[i])])
                         \o nl(level) \o <<"]">>
          [] v.t = "object"  ->
                IF fields = <<>> THEN <<"{", "}">>
                ELSE <<"{">>
                     \o items([i \in 1..Len(fields) |->
                                  quoted(<<fields[i].k>>) \o colon
                                      \o Stringify(fields[i].v, indent, level + 1)])
                     \o nl(level) \o <<"}">>
          [] v.t = "undefined" -> <<>>     \* no text is produced

JSONstringify(v, indent) == Stringify(v, indent, 0)

\* the characters encodeURIComponent escapes, among those the model uses
PctCode ==
    ("/" :> <<"%", "2", "F">>) @@ (" " :> <<"%", "2", "0">>) @@
    ("%" :> <<"%", "2", "5">>) @@ ("?" :> <<"%", "3", "F">>) @@
    ("+" :> <<"%", "2", "B">>)

encodeURIComponent(s) ==
    Flatten([i \in 1..Len(s) |->
                IF s[i] \in DOMAIN PctCode THEN PctCode[s[i]] ELSE <<s[i]>>])

-----------------------------------------------------------------------------
(* The input schemas the tools are registered with (zod) *)

zString      == [ty |-> "string",  req |-> TRUE,  vals |-> {}]
zNumber      == [ty |-> "number",  req |-> TRUE,  vals |-> {}]
zStringArray == [ty |-> "array",   req |-> TRUE,  vals |-> {}]
zEnum(vals)  == [ty |-> "enum",    req |-> TRUE,  vals |-> vals]
zBoolean     == [ty |-> "boolean", req |-> TRUE,  vals |-> {}]
optional(z)  == [z EXCEPT !.req = FALSE]

create_webhook_schema ==
    [project_id |-> zString, url |-> zString, token |-> optional(zString),
     push_events |-> optional(zBoolean),
     merge_requests_events |-> optional(zBoolean),
     tag_push_events |-> optional(zBoolean),
     issues_events |-> optional(zBoolean),
     pipeline_events |-> optional(zBoolean),
     job_events |-> optional(zBoolean),
     note_events |-> optional(zBoolean),
     releases_events |-> optional(zBoolean),
     enable_ssl_verification |-> optional(zBoolean)]

list_webhooks_schema == [project_id |-> zString]

update_webhook_schema ==
    [project_id |-> zString, hook_id |-> zNumber, url |-> optional(zString),
     token |-> optional(zString),
     push_events |-> optional(zBoolean),
     merge_requests_events |-> optional(zBoolean),
     tag_push_events |-> optional(zBoolean),
     issues_events |-> optional(zBoolean),
     pipeline_events |-> optional(zBoolean),
     job_events |-> optional(zBoolean),
     note_events |-> optional(zBoolean),
     releases_events |-> optional(zBoolean),
     enable_ssl_verification |-> optional(zBoolean)]

delete_webhook_schema == [project_id |-> zString, hook_id |-> zNumber]

test_webhook_schema ==
    [project_id |-> zString, hook_id |-> zNumber, trigger |-> zString]

variable_type_values == {<<"env_var">>, <<"file">>}

create_ci_variable_schema ==
    [project_id |-> zString, key |-> zString, value |-> zString,
     protected |-> optional(zBoolean), masked |-> optional(zBoolean),
     environment_scope |-> optional(zString),
     variable_type |-> optional(zEnum(variable_type_values))]

list_ci_variables_schema == [project_id |-> zString]

\* mutant: value declared optional
update_ci_variable_schema_optional_value ==
    [project_id |-> zString, key |-> zString, value |-> optional(zString),
     protected |-> optional(zBoolean), masked |-> optional(zBoolean),
     environment_scope |-> optional(zString),
     variable_type |-> optional(zEnum(variable_type_values))]

update_ci_variable_schema ==
    [project_id |-> zString, key |-> zString, value |-> zString,
     protected |-> optional(zBoolean), masked |-> optional(zBoolean),
     environment_scope |-> optional(zString),
     variable_type |-> optional(zEnum(variable_type_values))]

delete_ci_variable_schema == [project_id |-> zString, key |-> zString]

protect_branch_schema ==
    [project_id |-> zString, name |-> zString,
     push_access_level |-> optional(zNumber),
     merge_access_level |-> optional(zNumber),
     allow_force_push |-> optional(zBoolean)]

list_protected_branches_schema == [project_id |-> zString]

unprotect_branch_schema == [project_id |-> zString, name |-> zString]

merge_method_values == {<<"merge">>, <<"rebase_merge">>, <<"ff">>}

squash_option_values ==
    {<<"default_off">>, <<"default_on">>, <<"always">>, <<"never">>}

update_project_settings_schema ==
    [project_id |-> zString,
     merge_method |-> optional(zEnum(merge_method_values)),
     squash_option |-> optional(zEnum(squash_option_values)),
     only_allow_merge_if_pipeline_succeeds |-> optional(zBoolean),
     remove_source_branch_after_merge |-> optional(zBoolean),
     auto_devops_enabled |-> optional(zBoolean),
     shared_runners_enabled |-> optional(zBoolean),
     container_registry_enabled |-> optional(zBoolean)]

visibility_values == {<<"private">>, <<"internal">>, <<"public">>}

\* mutant: visibility declared as a plain string
create_group_schema_string_visibility ==
    [name |-> zString, path |-> zString,
     visibility |-> optional(zString),
     parent_id |-> optional(zNumber), description |-> optional(zString)]

create_group_schema ==
    [name |-> zString, path |-> zString,
     visibility |-> optional(zEnum(visibility_values)),
     parent_id |-> optional(zNumber), description |-> optional(zString)]

list_groups_schema ==
    [search |-> optional(zString), owned |-> optional(zBoolean),
     min_access_level |-> optional(zNumber)]

delete_group_schema == [group_id |-> zNumber]

create_project_access_token_schema ==
    [project_id |-> zString, name |-> zString, scopes |-> zStringArray,
     access_level |-> zNumber, expires_at |-> zString]

list_project_access_tokens_schema == [project_id |-> zString]

revoke_project_access_token_schema ==
    [project_id |-> zString, token_id |-> zNumber]

create_pipeline_trigger_schema ==
    [project_id |-> zString, description |-> zString]

list_pipeline_triggers_schema == [project_id |-> zString]

delete_pipeline_trigger_schema ==
    [project_id |-> zString, trigger_id |-> zNumber]

\* registerAllTools: the schema each tool name is registered with
Schema ==
    [create_webhook |-> create_webhook_schema,
     list_webhooks |-> list_webhooks_schema,
     update_webhook |-> update_webhook_schema,
     delete_webhook |-> delete_webhook_schema,
     test_webhook |-> test_webhook_schema,
     create_ci_variable |-> create_ci_variable_schema,
     list_ci_variables |-> list_ci_variables_schema,
     update_ci_variable |-> update_ci_variable_schema,
     delete_ci_variable |-> delete_ci_variable_schema,
     protect_branch |-> protect_branch_schema,
     list_protected_branches |-> list_protected_branches_schema,
     unprotect_branch |-> unprotect_branch_schema,
     update_project_settings |-> update_project_settings_schema,
     create_group |-> create_group_schema,
     list_groups |-> list_groups_schema,
     delete_group |-> delete_group_schema,
     create_project_access_token |-> create_project_access_token_schema,
     list_project_access_tokens |-> list_project_access_tokens_schema,
     revoke_project_access_token |-> revoke_project_access_token_schema,
     create_pipeline_trigger |-> create_pipeline_trigger_schema,
     list_pipeline_triggers |-> list_pipeline_triggers_schema,
     delete_pipeline_trigger |-> delete_pipeline_trigger_schema]

Tools == DOMAIN Schema

\* mutant: a number must be one of the documented access levels
zodFieldOk_documented_levels(z, args, k) ==
    IF k \notin DOMAIN args \/ args[k].t = "undefined" THEN ~z.req
    ELSE CASE z.ty = "string"  -> args[k].t = "string"
           [] z.ty = "number"  -> /\ args[k].t = "number"
                                  /\ args[k].n \in {0, 10, 20, 30, 40}
           [] z.ty = "boolean" -> args[k].t = "boolean"
           [] z.ty = "array"   -> args[k].t = "array"
           [] z.ty = "enum"    -> args[k].t = "string" /\ args[k].s \in z.vals

\* zod: one field of the argument map against its declared type; a key
\* that is missing is accepted only where the field is optional, null never
zodFieldOk(z, args, k) ==
    IF k \notin DOMAIN args \/ args[k].t = "undefined" THEN ~z.req
    ELSE CASE z.ty = "string"  -> args[k].t = "string"
           [] z.ty = "number"  -> args[k].t = "number"
           [] z.ty = "boolean" -> args[k].t = "boolean"
           [] z.ty = "array"   -> args[k].t = "array"
           [] z.ty = "enum"    -> args[k].t = "string" /\ args[k].s \in z.vals

safeParse(schema, args) ==
    [success |-> \A k \in DOMAIN schema : zodFieldOk(schema[k], args, k),
     data    |-> [k \in {f \in DOMAIN schema \cap DOMAIN args :
                             args[f].t # "undefined"} |-> args[k]]]

-----------------------------------------------------------------------------
(* The tool handlers: the call each makes on the GitLabApiClient *)

\* an object whose keys keep their insertion order: a sequence of fields
\* args.k: undefined when the key is missing
Arg(args, k) == IF k \in DOMAIN args THEN args[k] ELSE Undef

Field(args, k) == [k |-> k, v |-> Arg(args, k)]

\* mutant: body.k = args.k for every k of names, supplied or not
OptFields_unconditional(args, names) ==
    [i \in 1..Len(names) |-> [k |-> names[i],
                              v |-> IF names[i] \in DOMAIN args
                                    THEN args[names[i]] ELSE Undef]]

\* if (args.k !== undefined) body.k = args.k, for each k of names in order
OptFields(args, names) ==
    LET present == SelectSeq(names, LAMBDA k : Arg(args, k).t # "undefined")
    IN  [i \in 1..Len(present) |-> Field(args, present[i])]

absent   == [given |-> FALSE, fields |-> <<>>]
given(f) == [given |-> TRUE, fields |-> f]

clientGet(path, params) ==
    [method |-> "GET", path |-> path, body |-> absent, params |-> params]
clientPost(path, body) ==
    [method |-> "POST", path |-> path, body |-> given(body), params |-> absent]
clientPut(path, body) ==
    [method |-> "PUT", path |-> path, body |-> given(body), params |-> absent]
clientDelete(path) ==
    [method |-> "DELETE", path |-> path, body |-> absent, params |-> absent]

projectPath(args) ==
    <<"/", "projects", "/">> \o encodeURIComponent(String(Arg(args, "project_id")))

webhookEvents ==
    <<"token", "push_events", "merge_requests_events", "tag_push_events",
      "issues_events", "pipeline_events", "job_events", "note_events",
      "releases_events", "enable_ssl_verification">>

create_webhook(args) ==
    clientPost(projectPath(args) \o <<"/", "hooks">>,
               <<Field(args, "url")>> \o OptFields(args, webhookEvents))

list_webhooks(args) ==
    clientGet(projectPath(args) \o <<"/", "hooks">>, absent)

update_webhook(args) ==
    clientPut(projectPath(args) \o <<"/", "hooks", "/">>
                  \o String(Arg(args, "hook_id")),
              OptFields(args, <<"url">> \o webhookEvents))

delete_webhook(args) ==
    clientDelete(projectPath(args) \o <<"/", "hooks", "/">>
                     \o String(Arg(args, "hook_id")))

test_webhook(args) ==
    clientPost(projectPath(args) \o <<"/", "hooks", "/">>
                   \o String(Arg(args, "hook_id")) \o <<"/", "test", "/">>
                   \o String(Arg(args, "trigger")),
               <<>>)

variableOptions ==
    <<"protected", "masked", "environment_scope", "variable_type">>

create_ci_variable(args) ==
    clientPost(projectPath(args) \o <<"/", "variables">>,
               <<Field(args, "key"), Field(args, "value")>>
                   \o OptFields(args, variableOptions))

list_ci_variables(args) ==
    clientGet(projectPath(args) \o <<"/", "variables">>, absent)

update_ci_variable(args) ==
    clientPut(projectPath(args) \o <<"/", "variables", "/">>
                  \o encodeURIComponent(String(Arg(args, "key"))),
              <<Field(args, "value")>> \o OptFields(args, variableOptions))

delete_ci_variable(args) ==
    clientDelete(projectPath(args) \o <<"/", "variables", "/">>
                     \o encodeURIComponent(String(Arg(args, "key"))))

protect_branch(args) ==
    clientPost(projectPath(args) \o <<"/", "protected_branches">>,
               <<Field(args, "name")>>
                   \o OptFields(args, <<"push_access_level",
                                        "merge_access_level",
                                        "allow_force_push">>))

list_protected_branches(args) ==
    clientGet(projectPath(args) \o <<"/", "protected_branches">>, absent)

unprotect_branch(args) ==
    clientDelete(projectPath(args) \o <<"/", "protected_branches", "/">>
                     \o encodeURIComponent(String(Arg(args, "name"))))

update_project_settings(args) ==
    clientPut(projectPath(args),
              OptFields(args, <<"merge_method", "squash_option",
                                "only_allow_merge_if_pipeline_succeeds",
                                "remove_source_branch_after_merge",
                                "auto_devops_enabled",
                                "shared_runners_enabled",
                                "container_registry_enabled">>))

create_group(args) ==
    clientPost(<<"/", "groups">>,
               <<Field(args, "name"), Field(args, "path")>>
                   \o OptFields(args, <<"visibility", "parent_id",
                                        "description">>))

\* mutant: the filters go into the query map as they came
list_groups_uncoerced(args) ==
    clientGet(<<"/", "groups">>,
              given(OptFields(args, <<"search", "owned", "min_access_level">>)))

\* params.k = String(args.k) for each filter the caller supplied
list_groups(args) ==
    LET filters == OptFields(args, <<"search", "owned", "min_access_level">>)
    IN  clientGet(<<"/", "groups">>,
                  given([i \in 1..Len(filters) |->
                            [k |-> filters[i].k,
                             v |-> Str(String(filters[i].v))]]))

delete_group(args) ==
    clientDelete(<<"/", "groups", "/">> \o String(Arg(args, "group_id")))

create_project_access_token(args) ==
    clientPost(projectPath(args) \o <<"/", "access_tokens">>,
               <<Field(args, "name"), Field(args, "scopes"),
                 Field(args, "access_level"), Field(args, "expires_at")>>)

list_project_access_tokens(args) ==
    clientGet(projectPath(args) \o <<"/", "access_tokens">>, absent)

revoke_project_access_token(args) ==
    clientDelete(projectPath(args) \o <<"/", "access_tokens", "/">>
                     \o String(Arg(args, "token_id")))

create_pipeline_trigger(args) ==
    clientPost(projectPath(args) \o <<"/", "triggers">>,
               <<Field(args, "description")>>)

list_pipeline_triggers(args) ==
    clientGet(projectPath(args) \o <<"/", "triggers">>, absent)

delete_pipeline_trigger(args) ==
    clientDelete(projectPath(args) \o <<"/", "triggers", "/">>
                     \o String(Arg(args, "trigger_id")))

\* the callback registered under each tool name, up to its await
Handler(tool, args) ==
    CASE tool = "create_webhook" -> create_webhook(args)
      [] tool = "list_webhooks" -> list_webhooks(args)
      [] tool = "update_webhook" -> update_webhook(args)
      [] tool = "delete_webhook" -> delete_webhook(args)
      [] tool = "test_webhook" -> test_webhook(args)
      [] tool = "create_ci_variable" -> create_ci_variable(args)
      [] tool = "list_ci_variables" -> list_ci_variables(args)
      [] tool = "update_ci_variable" -> update_ci_variable(args)
      [] tool = "delete_ci_variable" -> delete_ci_variable(args)
      [] tool = "protect_branch" -> protect_branch(args)
      [] tool = "list_protected_branches" -> list_protected_branches(args)
      [] tool = "unprotect_branch" -> unprotect_branch(args)
      [] tool = "update_project_settings" -> update_project_settings(args)
      [] tool = "create_group" -> create_group(args)
      [] tool = "list_groups" -> list_groups(args)
      [] tool = "delete_group" -> delete_group(args)
      [] tool = "create_project_access_token" -> create_project_access_token(args)
      [] tool = "list_project_access_tokens" -> list_project_access_tokens(args)
      [] tool = "revoke_project_access_token" -> revoke_project_access_token(args)
      [] tool = "create_pipeline_trigger" -> create_pipeline_trigger(args)
      [] tool = "list_pipeline_triggers" -> list_pipeline_triggers(args)
      [] tool = "delete_pipeline_trigger" -> delete_pipeline_trigger(args)

-----------------------------------------------------------------------------
(* errors.ts *)

NoCause == [cls |-> "none", message |-> <<>>]

\* a thrown value: an Error of some class, or a value that is not an Error
JsError(cls, message) ==
    [cls |-> cls, message |-> message, value |-> Undef, statusCode |-> 0,
     gitlabMessage |-> Undef, paramName |-> "", cause |-> NoCause]

NonError(value) ==
    [cls |-> "nonError", message |-> <<>>, value |-> value, statusCode |-> 0,
     gitlabMessage |-> Undef, paramName |-> "", cause |-> NoCause]

instanceofError(e) == e.cls # "nonError"

GitLabApiError(statusCode, gitlabMessage) ==
    [JsError("GitLabApiError",
             <<"GitLab API error ", ToString(statusCode), ": ">>
                 \o String(gitlabMessage))
        EXCEPT !.statusCode = statusCode, !.gitlabMessage = gitlabMessage]

\* mutant: the cause is not kept on the error
GitLabConnectionError_no_cause(cause) ==
    JsError("GitLabConnectionError",
            <<"GitLab connection error: ">> \o cause.message)

GitLabConnectionError(cause) ==
    [JsError("GitLabConnectionError",
             <<"GitLab connection error: ">> \o cause.message)
        EXCEPT !.cause = [cls |-> cause.cls, message |-> cause.message]]

ValidationError(paramName, message) ==
    [JsError("ValidationError", message) EXCEPT !.paramName = paramName]

-----------------------------------------------------------------------------
(* gitlab-client.ts *)

\* URLSearchParams(params).toString(), application/x-www-form-urlencoded
FormCode == (" " :> <<"+">>) @@ PctCode

formEncode(s) ==
    Flatten([i \in 1..Len(s) |->
                IF s[i] \in DOMAIN FormCode THEN FormCode[s[i]] ELSE <<s[i]>>])

URLSearchParams(fields) ==
    Join([i \in 1..Len(fields) |->
             formEncode(<<fields[i].k>>) \o <<"=">> \o formEncode(fields[i].v.s)],
         "&")

\* mutant: Content-Type is set whatever the method
request_always_content_type(baseUrl, token, method, path, body, params) ==
    [url     |-> baseUrl \o path
                 \o (IF params.given /\ Len(params.fields) > 0
                     THEN <<"?">> \o URLSearchParams(params.fields)
                     ELSE <<>>),
     method  |-> method,
     headers |-> ("PRIVATE-TOKEN" :> token)
                 @@ ("Content-Type" :> <<"application/json">>),
     body    |-> IF body.given
                 THEN [given |-> TRUE,
                       text |-> JSONstringify(Obj(body.fields), 0)]
                 ELSE [given |-> FALSE, text |-> <<>>]]

\* request(), lines 12-33: the url and init handed to fetch
request(baseUrl, token, method, path, body, params) ==
    [url     |-> baseUrl \o path
                 \o (IF params.given /\ Len(params.fields) > 0
                     THEN <<"?">> \o URLSearchParams(params.fields)
                     ELSE <<>>),
     method  |-> method,
     headers |-> ("PRIVATE-TOKEN" :> token)
                 @@ (IF body.given
                     THEN ("Content-Type" :> <<"application/json">>)
                     ELSE <<>>),
     body    |-> IF body.given
                 THEN [given |-> TRUE,
                       text |-> JSONstringify(Obj(body.fields), 0)]
                 ELSE [given |-> FALSE, text |-> <<>>]]

\* mutant: the request is issued again
fetchCalls_retry(init) == <<init, init>>

\* await fetch(url, init): request() awaits fetch once
fetchCalls(init) == <<init>>

returns(value) == [kind |-> "return", value |-> value, error |-> NonError(Undef)]
throws(error)  == [kind |-> "throw", value |-> Undef, error |-> error]

\* mutant: only 200 counts as success
responseOk_only200(status) == status = 200

responseOk(status) == status >= 200 /\ status < 300

\* response.json(): reads the body, then parses it
responseJson(body, bodyUsed) ==
    IF bodyUsed THEN throws(JsError("TypeError", <<"Body is unusable">>))
    ELSE IF body.parses THEN returns(body.value)
    ELSE throws(JsError("SyntaxError", <<"Unexpected token">>))

\* response.text(): the body can be read once
responseText(body, bodyUsed) ==
    IF bodyUsed THEN throws(JsError("TypeError", <<"Body is unusable">>))
    ELSE returns(Str(body.raw))

\* mutant: the body of a 2xx response is parsed whatever the method
requestSettle_delete_parses(method, outcome) ==
    IF outcome.kind = "reject"
    THEN throws(GitLabConnectionError(
                    IF instanceofError(outcome.thrown) THEN outcome.thrown
                    ELSE JsError("Error", String(outcome.thrown.value))))
    ELSE IF ~responseOk(outcome.status)
    THEN LET parsed == responseJson(outcome.body, FALSE)
         IN  IF parsed.kind = "return" /\ ~Nullish(parsed.value)
             THEN LET errorBody == parsed.value
                      message ==
                          IF ~Nullish(Prop(errorBody, "message"))
                          THEN Prop(errorBody, "message")
                          ELSE IF ~Nullish(Prop(errorBody, "error"))
                          THEN Prop(errorBody, "error")
                          ELSE Str(JSONstringify(errorBody, 0))
                  IN  throws(GitLabApiError(outcome.status, message))
             ELSE LET text == responseText(outcome.body, TRUE)
                  IN  IF text.kind = "throw" THEN text
                      ELSE throws(GitLabApiError(outcome.status, text.value))
    ELSE responseJson(outcome.body, FALSE)

\* request(), lines 34-54: what the call settles to, given what fetch did
requestSettle(method, outcome) ==
    IF outcome.kind = "reject"
    THEN throws(GitLabConnectionError(
                    IF instanceofError(outcome.thrown) THEN outcome.thrown
                    ELSE JsError("Error", String(outcome.thrown.value))))
    ELSE IF ~responseOk(outcome.status)
    THEN LET parsed == responseJson(outcome.body, FALSE)
         IN  IF parsed.kind = "return" /\ ~Nullish(parsed.value)
             THEN LET errorBody == parsed.value
                      message ==
                          IF ~Nullish(Prop(errorBody, "message"))
                          THEN Prop(errorBody, "message")
                          ELSE IF ~Nullish(Prop(errorBody, "error"))
                          THEN Prop(errorBody, "error")
                          ELSE Str(JSONstringify(errorBody, 0))
                  IN  throws(GitLabApiError(outcome.status, message))
             ELSE LET text == responseText(outcome.body, TRUE)
                  IN  IF text.kind = "throw" THEN text
                      ELSE throws(GitLabApiError(outcome.status, text.value))
    ELSE IF method = "DELETE" THEN returns(Undef)
    ELSE responseJson(outcome.body, FALSE)

\* request(), lines 38-53: the reads of the response body it attempts, in order
requestReads(method, outcome) ==
    IF outcome.kind = "reject" THEN <<>>
    ELSE IF ~responseOk(outcome.status)
    THEN LET parsed == responseJson(outcome.body, FALSE)
         IN  IF parsed.kind = "return" /\ ~Nullish(parsed.value)
             THEN <<"json">>
             ELSE <<"json", "text">>
    ELSE IF method = "DELETE" THEN <<>>
    ELSE <<"json">>

-----------------------------------------------------------------------------
(* The dispatcher: schema check, handler, error normalisation *)

errorResponse(message) == [isError |-> TRUE, text |-> message]

\* mutant: the payload is serialized without indentation
jsonResponse_compact(data) == [isError |-> FALSE, text |-> JSONstringify(data, 0)]

jsonResponse(data) == [isError |-> FALSE, text |-> JSONstringify(data, 2)]

\* mutant: the catch-all answers without the error mark
handleError_unmarked(error) ==
    IF error.cls = "ValidationError"
    THEN errorResponse(<<"Validation error: ">> \o error.message)
    ELSE IF error.cls = "GitLabApiError"
    THEN errorResponse(<<"GitLab API error ", ToString(error.statusCode), ": ">>
                           \o String(error.gitlabMessage))
    ELSE IF error.cls = "GitLabConnectionError"
    THEN errorResponse(<<"GitLab connection error: ">> \o error.message)
    ELSE [isError |-> FALSE,
          text |-> <<"Unexpected error: ">>
                       \o (IF instanceofError(error) THEN error.message
                           ELSE String(error.value))]

\* mutant: the remote rejection is rendered from error.message
handleError_api_message(error) ==
    IF error.cls = "ValidationError"
    THEN errorResponse(<<"Validation error: ">> \o error.message)
    ELSE IF error.cls = "GitLabApiError"
    THEN errorResponse(<<"GitLab API error ", ToString(error.statusCode), ": ">>
                           \o error.message)
    ELSE IF error.cls = "GitLabConnectionError"
    THEN errorResponse(<<"GitLab connection error: ">> \o error.message)
    ELSE errorResponse(<<"Unexpected error: ">>
                           \o (IF instanceofError(error) THEN error.message
                               ELSE String(error.value)))

\* mutant: the catch-all passes the message on without a prefix
handleError_bare(error) ==
    IF error.cls = "ValidationError"
    THEN errorResponse(<<"Validation error: ">> \o error.message)
    ELSE IF error.cls = "GitLabApiError"
    THEN errorResponse(<<"GitLab API error ", ToString(error.statusCode), ": ">>
                           \o String(error.gitlabMessage))
    ELSE IF error.cls = "GitLabConnectionError"
    THEN errorResponse(<<"GitLab connection error: ">> \o error.message)
    ELSE errorResponse(IF instanceofError(error) THEN error.message
                       ELSE String(error.value))

handleError(error) ==
    IF error.cls = "ValidationError"
    THEN errorResponse(<<"Validation error: ">> \o error.message)
    ELSE IF error.cls = "GitLabApiError"
    THEN errorResponse(<<"GitLab API error ", ToString(error.statusCode), ": ">>
                           \o String(error.gitlabMessage))
    ELSE IF error.cls = "GitLabConnectionError"
    THEN errorResponse(<<"GitLab connection error: ">> \o error.message)
    ELSE errorResponse(<<"Unexpected error: ">>
                           \o (IF instanceofError(error) THEN error.message
                               ELSE String(error.value)))

\* the handlers that await client.delete and answer with the fixed marker
DeleteTools ==
    {"delete_webhook", "delete_ci_variable", "unprotect_branch",
     "delete_group", "revoke_project_access_token", "delete_pipeline_trigger"}

statusSuccess == Obj(<<[k |-> "status", v |-> Str(<<"success">>)]>>)

\* the handler after its await: try { ... return jsonResponse } catch
HandlerSettle(tool, settled) ==
    IF settled.kind = "throw" THEN handleError(settled.error)
    ELSE IF tool \in DeleteTools THEN jsonResponse(statusSuccess)
    ELSE jsonResponse(settled.value)

\* McpServer answers a call whose arguments fail the schema itself
invalidArguments(tool) ==
    [isError |-> TRUE,
     text |-> <<"MCP error -32602: ", "Invalid arguments for tool ", tool>>]

-----------------------------------------------------------------------------
(* Inputs *)

Tokens == {<<"glpat-A">>, <<"glpat-B">>}

apiUrl == <<"https://gitlab.com/api/v4">>

\* arguments that end up in a path or a query get a plain and a namespaced
\* value
PathArgs == {"project_id", "key", "name", "trigger", "search"}

GoodVals(z, k) ==
    CASE z.ty = "string"  -> IF k \in PathArgs
                             THEN <<Str(<<"4", "2">>), Str(<<"g", "/", "p">>)>>
                             ELSE <<Str(<<"x">>)>>
      [] z.ty = "number"  -> <<Num(0), Num(7)>>
      [] z.ty = "boolean" -> <<Bool(FALSE), Bool(TRUE)>>
      [] z.ty = "array"   -> <<Arr(<<<<"api">>, <<"read_api">>>>)>>
      [] z.ty = "enum"    ->
            LET RECURSIVE list(_)
                list(S) == IF S = {} THEN <<>>
                           ELSE LET e == CHOOSE x \in S : TRUE
                                IN  <<Str(e)>> \o list(S \ {e})
            IN  list(z.vals)

\* a value the declared type rejects
BadVal(z) ==
    CASE z.ty = "string"  -> Num(7)
      [] z.ty = "number"  -> Str(<<"7">>)
      [] z.ty = "boolean" -> Null
      [] z.ty = "array"   -> Str(<<"api">>)
      [] z.ty = "enum"    -> Str(<<"hidden">>)

\* what an edited argument can be: a required one is left out or mistyped,
\* an optional one is supplied, well or badly
EditVals(z, k) ==
    IF z.req THEN <<Undef, BadVal(z)>> ELSE GoodVals(z, k) \o <<BadVal(z)>>

MaxChoices == Cardinality(squash_option_values) + 1

\* the sets of at most MaxEdits arguments of a tool
EditSets(tool) ==
    {E \in SUBSET DOMAIN Schema[tool] : Cardinality(E) <= MaxEdits}

\* for each edited argument, which of its edit values it takes
EditChoices(tool, E) ==
    {e \in [E -> 1..MaxChoices] :
        \A k \in E : e[k] <= Len(EditVals(Schema[tool][k], k))}

\* for each required argument left alone, which of its valid values it takes
BaseChoices(tool, E) ==
    LET rest == {k \in DOMAIN Schema[tool] : Schema[tool][k].req} \ E
    IN  {g \in [rest -> 1..2] :
            \A k \in rest : g[k] <= Len(GoodVals(Schema[tool][k], k))}

\* the argument map: the required arguments, valid, with those of E edited
MakeArgs(tool, E, e, g) ==
    LET sch  == Schema[tool]
        full == [k \in E \cup DOMAIN g |->
                    IF k \in E THEN EditVals(sch[k], k)[e[k]]
                    ELSE GoodVals(sch[k], k)[g[k]]]
    IN  [k \in {f \in DOMAIN full : full[f].t # "undefined"} |-> full[k]]

Reject(thrown) ==
    [kind |-> "reject", thrown |-> thrown, status |-> 0,
     body |-> [raw |-> <<>>, parses |-> FALSE, value |-> Undef]]

Response(status, body) ==
    [kind |-> "response", thrown |-> NonError(Undef), status |-> status,
     body |-> body]

JsonBody(value) ==
    [raw |-> JSONstringify(value, 0), parses |-> TRUE, value |-> value]

TextBody(raw) == [raw |-> raw, parses |-> FALSE, value |-> Undef]

messageBody == JsonBody(Obj(<<[k |-> "message", v |-> Str(<<"404 Project Not Found">>)]>>))
errorBody   == JsonBody(Obj(<<[k |-> "error", v |-> Str(<<"invalid_token">>)]>>))
bothBody    == JsonBody(Obj(<<[k |-> "error", v |-> Str(<<"e">>)],
                              [k |-> "message", v |-> Str(<<"m">>)]>>))
objectMessageBody ==
    JsonBody(Obj(<<[k |-> "message",
                    v |-> Obj(<<[k |-> "name", v |-> Arr(<<<<"taken">>>>)]>>)]>>))
numberMessageBody == JsonBody(Obj(<<[k |-> "message", v |-> Num(5)]>>))
arrayMessageBody ==
    JsonBody(Obj(<<[k |-> "message", v |-> Arr(<<<<"taken">>>>)]>>))
nullMessageBody ==
    JsonBody(Obj(<<[k |-> "message", v |-> Null],
                   [k |-> "error", v |-> Str(<<"e">>)]>>))
emptyObjectBody == JsonBody(Obj(<<>>))
scalarBody   == JsonBody(Num(5))
resourceBody == JsonBody(Obj(<<[k |-> "id", v |-> Num(1)]>>))
nestedBody   == JsonBody(Obj(<<[k |-> "id", v |-> Num(1)],
                               [k |-> "scopes", v |-> Arr(<<<<"api">>>>)]>>))
nullBody     == JsonBody(Null)
htmlBody     == TextBody(<<"<html>", " ", "Bad Gateway">>)
emptyBody    == TextBody(<<>>)

\* what fetch can do with a request
FetchOutcomes ==
    {Reject(JsError("Error", <<"ECONNREFUSED">>)),
     Reject(JsError("TypeError", <<"fetch failed">>)),
     Reject(NonError(Str(<<"timeout">>))),
     Reject(NonError(Null))}
    \cup {Response(200, resourceBody), Response(201, nestedBody),
          Response(204, emptyBody), Response(200, htmlBody)}
    \cup {Response(st, messageBody) : st \in {400, 404, 599}}
    \cup {Response(400, errorBody), Response(409, bothBody),
          Response(422, objectMessageBody), Response(400, numberMessageBody),
          Response(500, resourceBody), Response(500, nullBody),
          Response(502, htmlBody), Response(304, emptyBody),
          Response(400, arrayMessageBody), Response(400, nullMessageBody),
          Response(500, emptyObjectBody), Response(500, scalarBody),
          Response(200, nullBody)}

\* what a test double can do with a call
StubOutcomes ==
    {returns(Obj(<<[k |-> "mocked", v |-> Bool(TRUE)]>>)),
     throws(ValidationError("value", <<"Missing required parameter: ", "value">>)),
     throws(GitLabConnectionError(JsError("Error", <<"ECONNREFUSED">>))),
     throws(JsError("Error", <<"something broke">>)),
     throws(NonError(Str(<<"boom">>)))}
    \cup {throws(GitLabApiError(st, Str(m))) :
            st \in {400, 403, 599}, m \in {<<"403 Forbidden">>, <<"m">>}}

-----------------------------------------------------------------------------
(* The state machine: one invocation after another *)

NoCall    == [tool |-> "", args |-> <<>>]
NoOutcome == [Reject(NonError(Undef)) EXCEPT !.kind = "none"]
NoSettle  == [kind |-> "none", value |-> Undef, error |-> NonError(Undef)]
NoResult  == [isError |-> FALSE, text |-> <<>>]

\* res.status(n).json(...): the status, and the method of the request it
\* answers
NoRequestYet == [method |-> ""]

Reply(status, req) == [status |-> status, method |-> req.method]

NoResponse == Reply(0, NoRequestYet)

\* the HTTP server before any request
HttpIdle ==
    /\ transports = <<>>
    /\ sessionTokens = <<>>
    /\ instances = <<>>
    /\ inflight = {}
    /\ res = NoResponse

NoValidation == [fn |-> "", params |-> <<>>, name |-> "", values |-> <<>>]

\* no invocation in flight, no validator called
AuxIdle ==
    /\ invocations = <<>>
    /\ validation = [call |-> NoValidation, out |-> NoSettle]

Init ==
    /\ client \in {"gitlab", "stub"}
    /\ apiToken \in Tokens
    /\ HttpIdle
    /\ AuxIdle
    /\ pc = "idle"
    /\ call = NoCall
    /\ clientCalls = <<>>
    /\ fetches = <<>>
    /\ fetched = NoOutcome
    /\ clientResult = NoSettle
    /\ reads = <<>>
    /\ result = NoResult

\* tools/call whose arguments fail the schema: the handler never runs
CallRejected(tool, args) ==
    /\ pc = "idle"
    /\ ~safeParse(Schema[tool], args).success
    /\ pc' = "done"
    /\ call' = [tool |-> tool, args |-> args]
    /\ clientCalls' = <<>>
    /\ fetches' = <<>>
    /\ fetched' = NoOutcome
    /\ clientResult' = NoSettle
    /\ reads' = <<>>
    /\ result' = invalidArguments(tool)
    /\ UNCHANGED <<client, apiToken>>
    /\ UNCHANGED <<httpVars, auxVars>>

\* tools/call with valid arguments: the handler runs up to its await
CallSent(tool, args) ==
    /\ pc = "idle"
    /\ safeParse(Schema[tool], args).success
    /\ LET c == Handler(tool, safeParse(Schema[tool], args).data)
       IN  /\ clientCalls' = <<c>>
           /\ fetches' = IF client = "gitlab"
                         THEN fetchCalls(request(apiUrl, apiToken, c.method,
                                                 c.path, c.body, c.params))
                         ELSE <<>>
    /\ pc' = "sent"
    /\ call' = [tool |-> tool, args |-> args]
    /\ fetched' = NoOutcome
    /\ clientResult' = NoSettle
    /\ reads' = <<>>
    /\ result' = NoResult
    /\ UNCHANGED <<client, apiToken>>
    /\ UNCHANGED <<httpVars, auxVars>>

\* fetch settles; request() and then the handler run to completion
FetchSettles(o) ==
    /\ pc = "sent"
    /\ client = "gitlab"
    /\ fetched' = o
    /\ clientResult' = requestSettle(clientCalls[1].method, o)
    /\ reads' = requestReads(clientCalls[1].method, o)
    /\ result' = HandlerSettle(call.tool, clientResult')
    /\ pc' = "done"
    /\ UNCHANGED <<client, apiToken, call, clientCalls, fetches>>
    /\ UNCHANGED <<httpVars, auxVars>>

\* the test double settles; the handler runs to completion
StubSettles(s) ==
    /\ pc = "sent"
    /\ client = "stub"
    /\ clientResult' = s
    /\ result' = HandlerSettle(call.tool, s)
    /\ pc' = "done"
    /\ UNCHANGED <<client, apiToken, call, clientCalls, fetches, fetched, reads>>
    /\ UNCHANGED <<httpVars, auxVars>>

\* the result has gone to the protocol layer; nothing of the call is kept
Completed ==
    /\ pc = "done"
    /\ pc' = "idle"
    /\ call' = NoCall
    /\ clientCalls' = <<>>
    /\ fetches' = <<>>
    /\ fetched' = NoOutcome
    /\ clientResult' = NoSettle
    /\ reads' = <<>>
    /\ result' = NoResult
    /\ UNCHANGED <<client, apiToken>>
    /\ UNCHANGED <<httpVars, auxVars>>

Next ==
    \/ /\ pc = "idle"
       /\ \E tool \in Tools : \E E \in EditSets(tool) :
             \E e \in EditChoices(tool, E), g \in BaseChoices(tool, E) :
                CallRejected(tool, MakeArgs(tool, E, e, g))
    \/ /\ pc = "idle"
       /\ \E tool \in Tools : \E E \in EditSets(tool) :
             \E e \in EditChoices(tool, E), g \in BaseChoices(tool, E) :
                CallSent(tool, MakeArgs(tool, E, e, g))
    \/ /\ pc = "sent"
       /\ \E o \in FetchOutcomes : FetchSettles(o)
    \/ /\ pc = "sent"
       /\ \E s \in StubOutcomes : StubSettles(s)
    \/ Completed

Spec == Init /\ [][Next]_vars

-----------------------------------------------------------------------------
(* Properties *)

Called     == pc \in {"sent", "done"}
ArgsValid  == safeParse(Schema[call.tool], call.args).success
NoRequest  == clientCalls = <<>> /\ fetches = <<>>
Rejected   == pc = "done" /\ result.isError /\ NoRequest

RequiredParams ==
    [create_webhook |-> {"project_id", "url"},
     list_webhooks |-> {"project_id"},
     update_webhook |-> {"project_id", "hook_id"},
     delete_webhook |-> {"project_id", "hook_id"},
     test_webhook |-> {"project_id", "hook_id", "trigger"},
     create_ci_variable |-> {"project_id", "key", "value"},
     list_ci_variables |-> {"project_id"},
     update_ci_variable |-> {"project_id", "key", "value"},
     delete_ci_variable |-> {"project_id", "key"},
     protect_branch |-> {"project_id", "name"},
     list_protected_branches |-> {"project_id"},
     unprotect_branch |-> {"project_id", "name"},
     update_project_settings |-> {"project_id"},
     create_group |-> {"name", "path"},
     list_groups |-> {},
     delete_group |-> {"group_id"},
     create_project_access_token |->
         {"project_id", "name", "scopes", "access_level", "expires_at"},
     list_project_access_tokens |-> {"project_id"},
     revoke_project_access_token |-> {"project_id", "token_id"},
     create_pipeline_trigger |-> {"project_id", "description"},
     list_pipeline_triggers |-> {"project_id"},
     delete_pipeline_trigger |-> {"project_id", "trigger_id"}]

\* C1: a call that omits a required parameter of its tool ends in an
\* error-marked result, and no call reaches the GitLab client: neither a
\* client call nor a fetch is made for it.
C1_RequiredParamEnforced ==
    (Called /\ \E k \in RequiredParams[call.tool] : k \notin DOMAIN call.args)
        => Rejected

C1_Witness ==
    /\ pc = "done"
    /\ call.tool = "update_ci_variable"
    /\ DOMAIN call.args = {"project_id", "key"}
    /\ call.args["project_id"] = Str(<<"4", "2">>)
    /\ call.args["key"].t = "string"
    /\ result.isError
    /\ NoRequest

EnumParams ==
    {[tool |-> "create_ci_variable", param |-> "variable_type",
      allowed |-> {<<"env_var">>, <<"file">>}],
     [tool |-> "update_ci_variable", param |-> "variable_type",
      allowed |-> {<<"env_var">>, <<"file">>}],
     [tool |-> "create_group", param |-> "visibility",
      allowed |-> {<<"private">>, <<"internal">>, <<"public">>}],
     [tool |-> "update_project_settings", param |-> "merge_method",
      allowed |-> {<<"merge">>, <<"rebase_merge">>, <<"ff">>}],
     [tool |-> "update_project_settings", param |-> "squash_option",
      allowed |-> {<<"default_off">>, <<"default_on">>, <<"always">>,
                   <<"never">>}]}

InBody(k, v) ==
    /\ Len(clientCalls) = 1
    /\ clientCalls[1].body.given
    /\ \E i \in 1..Len(clientCalls[1].body.fields) :
          clientCalls[1].body.fields[i] = [k |-> k, v |-> v]

\* C2: a string outside the allowed set of an enum parameter ends the call
\* in an error-marked result with no call on the client; a value inside the
\* set, the other arguments being valid, is in the body the client receives.
C2_EnumEnforced ==
    \A en \in EnumParams :
        (Called /\ call.tool = en.tool /\ en.param \in DOMAIN call.args
                /\ call.args[en.param].t = "string")
        => IF call.args[en.param].s \in en.allowed
           THEN (\A k \in DOMAIN call.args \ {en.param} :
                    zodFieldOk(Schema[call.tool][k], call.args, k))
                /\ RequiredParams[call.tool] \subseteq DOMAIN call.args
                => InBody(en.param, call.args[en.param])
           ELSE Rejected

C2_WitnessAccepted ==
    /\ pc = "sent"
    /\ call.tool = "update_project_settings"
    /\ "squash_option" \in DOMAIN call.args
    /\ InBody("squash_option", Str(<<"never">>))

C2_Witness ==
    /\ Rejected
    /\ call.tool = "create_group"
    /\ "visibility" \in DOMAIN call.args
    /\ call.args["visibility"] = Str(<<"hidden">>)

\* C3: an invocation hands at most one request to fetch: exactly one once
\* its arguments passed validation, none when they did not, and still one
\* after the request failed in any way.
C3_AtMostOneFetch ==
    /\ Len(fetches) <= 1
    /\ (client = "gitlab" /\ Called) =>
          Len(fetches) = IF ArgsValid THEN 1 ELSE 0

C3_Witness ==
    /\ pc = "done"
    /\ client = "gitlab"
    /\ fetched.kind = "reject"
    /\ Len(fetches) = 1
    /\ result.isError

\* C4: an invocation has no result until it is done and then has one: not
\* error-marked when the client returned, error-marked with a text when the
\* client raised anything or the arguments were rejected.
C4_AlwaysOneResult ==
    /\ pc # "done" => result = NoResult
    /\ pc = "done" =>
          /\ clientResult.kind = "return" => ~result.isError
          /\ clientResult.kind \in {"throw", "none"} =>
                result.isError /\ result.text # <<>>

C4_Witness ==
    /\ pc = "done"
    /\ clientResult.kind = "throw"
    /\ clientResult.error.cls = "nonError"
    /\ result.isError

\* C5: when the client raises a GitLabApiError with a status in 400..599 and
\* a non-empty message, the result is error-marked and its text is
\* 'GitLab API error <status>: <message>'.
C5_ApiErrorText ==
    (/\ pc = "done"
     /\ clientResult.kind = "throw"
     /\ clientResult.error.cls = "GitLabApiError"
     /\ clientResult.error.statusCode \in 400..599
     /\ clientResult.error.gitlabMessage.t = "string"
     /\ clientResult.error.gitlabMessage.s # <<>>)
    => /\ result.isError
       /\ result.text =
             <<"GitLab API error ", ToString(clientResult.error.statusCode),
               ": ">> \o clientResult.error.gitlabMessage.s

C5_Witness ==
    /\ pc = "done"
    /\ client = "stub"
    /\ call.tool \in DeleteTools
    /\ clientResult.kind = "throw"
    /\ clientResult.error.cls = "GitLabApiError"
    /\ clientResult.error.statusCode = 599
    /\ result.text = <<"GitLab API error ", "599", ": ", "403 Forbidden">>

ThreeKinds ==
    {"Validation error: ", "GitLab API error ", "GitLab connection error: "}

CauseMessage ==
    IF instanceofError(fetched.thrown) THEN fetched.thrown.message
    ELSE String(fetched.thrown.value)

\* C7: when fetch fails with a cause whose message is m, the result is
\* error-marked and its text is 'GitLab connection error: ' followed by m.
C7_ConnectionErrorText ==
    (pc = "done" /\ client = "gitlab" /\ fetched.kind = "reject")
        => /\ result.isError
           /\ result.text = <<"GitLab connection error: ">> \o CauseMessage

\* C8: every request handed to fetch carries PRIVATE-TOKEN with the token
\* the client was created with; Content-Type: application/json and a body
\* are present exactly when the method is POST or PUT.
C8_AuthAndContentType ==
    \A i \in 1..Len(fetches) :
        LET init == fetches[i]
            hasBody == init.method \in {"POST", "PUT"}
        IN  /\ "PRIVATE-TOKEN" \in DOMAIN init.headers
            /\ init.headers["PRIVATE-TOKEN"] = apiToken
            /\ "Content-Type" \in DOMAIN init.headers <=> hasBody
            /\ hasBody => init.headers["Content-Type"] = <<"application/json">>
            /\ init.body.given <=> hasBody
            /\ hasBody => Head(init.body.text) = "{"

C8_Witness ==
    /\ Len(fetches) = 1
    /\ apiToken = <<"glpat-B">>
    /\ fetches[1].method = "PUT"
    /\ fetches[1].headers["PRIVATE-TOKEN"] = <<"glpat-B">>
    /\ "Content-Type" \in DOMAIN fetches[1].headers

\* the number of segments of each tool's path template
TemplateSegments ==
    [create_webhook |-> 3, list_webhooks |-> 3, update_webhook |-> 4,
     delete_webhook |-> 4, test_webhook |-> 6, create_ci_variable |-> 3,
     list_ci_variables |-> 3, update_ci_variable |-> 4,
     delete_ci_variable |-> 4, protect_branch |-> 3,
     list_protected_branches |-> 3, unprotect_branch |-> 4,
     update_project_settings |-> 2, create_group |-> 1, list_groups |-> 1,
     delete_group |-> 2, create_project_access_token |-> 3,
     list_project_access_tokens |-> 3, revoke_project_access_token |-> 4,
     create_pipeline_trigger |-> 3, list_pipeline_triggers |-> 3,
     delete_pipeline_trigger |-> 4]

Segments(path) == Len(SelectSeq(path, LAMBDA c : c = "/"))

\* C9: every argument bound to a path placeholder is percent-encoded, so
\* the request path has exactly the segments of the tool's path template
\* whatever the arguments contain.
C9_PathSegments ==
    \A i \in 1..Len(clientCalls) :
        Segments(clientCalls[i].path) = TemplateSegments[call.tool]

\* the arguments each create and update tool puts into its path, and the
\* fields its body always has
BodyTools ==
    [create_webhook |-> [path |-> {"project_id"}, body |-> {"url"}],
     update_webhook |-> [path |-> {"project_id", "hook_id"}, body |-> {}],
     create_ci_variable |-> [path |-> {"project_id"}, body |-> {"key", "value"}],
     update_ci_variable |-> [path |-> {"project_id", "key"}, body |-> {"value"}],
     protect_branch |-> [path |-> {"project_id"}, body |-> {"name"}],
     update_project_settings |-> [path |-> {"project_id"}, body |-> {}],
     create_group |-> [path |-> {}, body |-> {"name", "path"}],
     create_project_access_token |->
         [path |-> {"project_id"},
          body |-> {"name", "scopes", "access_level", "expires_at"}],
     create_pipeline_trigger |-> [path |-> {"project_id"}, body |-> {"description"}]]

\* C10: the body a create or update tool passes to the client has exactly
\* the tool's required body fields and the optional fields the caller
\* supplied, each once and with the supplied value, none null or undefined,
\* and no argument the path consumed.
C10_BodyExact ==
    (Called /\ call.tool \in DOMAIN BodyTools /\ clientCalls # <<>>) =>
        LET fields == clientCalls[1].body.fields
            keys   == {fields[i].k : i \in 1..Len(fields)}
            spec   == BodyTools[call.tool]
        IN  /\ clientCalls[1].body.given
            /\ keys = DOMAIN call.args \ spec.path
            /\ spec.body \subseteq keys
            /\ Cardinality(keys) = Len(fields)
            /\ \A i \in 1..Len(fields) :
                  /\ fields[i].v = call.args[fields[i].k]
                  /\ ~Nullish(fields[i].v)

C10_Witness ==
    /\ pc = "sent"
    /\ call.tool = "protect_branch"
    /\ clientCalls[1].body.fields =
          <<[k |-> "name", v |-> Str(<<"g", "/", "p">>)],
            [k |-> "push_access_level", v |-> Num(0)]>>

C10_WitnessFalse ==
    /\ pc = "sent"
    /\ call.tool = "update_webhook"
    /\ clientCalls[1].body.fields = <<[k |-> "push_events", v |-> Bool(FALSE)]>>

-----------------------------------------------------------------------------
(* Update tools; the client's reading of a response *)

UpdateIdentifiers ==
    [update_webhook |-> {"project_id", "hook_id"},
     update_ci_variable |-> {"project_id", "key"},
     update_project_settings |-> {"project_id"}]

OnlyIdentifiers ==
    /\ Called
    /\ call.tool \in DOMAIN UpdateIdentifiers
    /\ DOMAIN call.args = UpdateIdentifiers[call.tool]

\* C11: an update tool called with its identifiers only, and no field to
\* change, makes no client call and no request and ends with an error
\* result.
C11_UpdateNeedsField ==
    OnlyIdentifiers => /\ NoRequest
                       /\ pc = "done" => result.isError

GotResponse == client = "gitlab" /\ pc = "done" /\ fetched.kind = "response"
Is2xx       == fetched.status \in 200..299

\* the field k of a parsed body, where it is there and not null
HasField(v, k) ==
    v.t = "object" /\ \E i \in 1..Len(v.o) : v.o[i].k = k /\ v.o[i].v.t # "null"
FieldOf(v, k) == v.o[CHOOSE i \in 1..Len(v.o) : v.o[i].k = k].v

Raised(cls) == clientResult.kind = "throw" /\ clientResult.error.cls = cls

\* C12: after a response that is not 2xx the client has raised a
\* GitLabApiError whose message is the body's message field, else its error
\* field, else the parsed body serialized, and the raw text of the response
\* where the body is not JSON.
C12_MessagePrecedence ==
    (GotResponse /\ ~Is2xx) =>
        LET b == fetched.body
        IN  /\ Raised("GitLabApiError")
            /\ clientResult.error.gitlabMessage =
                  IF ~b.parses THEN Str(b.raw)
                  ELSE IF HasField(b.value, "message")
                       THEN FieldOf(b.value, "message")
                  ELSE IF HasField(b.value, "error")
                       THEN FieldOf(b.value, "error")
                  ELSE Str(b.raw)

\* C13: a GitLabApiError raised by the client carries the status of the
\* response as statusCode and a string as gitlabMessage.
C13_ApiErrorFields ==
    (client = "gitlab" /\ Raised("GitLabApiError")) =>
        /\ fetched.kind = "response"
        /\ clientResult.error.statusCode = fetched.status
        /\ clientResult.error.gitlabMessage.t = "string"

\* C14: after a response that is not 2xx, whatever its body, the client
\* call has failed with a GitLabApiError carrying the status of the
\* response, and with no other error.
C14_NonOkIsApiError ==
    (GotResponse /\ ~Is2xx) =>
        /\ Raised("GitLabApiError")
        /\ clientResult.error.statusCode = fetched.status

Method == clientCalls[1].method

\* C15 as first stated: after any 2xx response the client call has succeeded
\* and the tool result is a success payload.
C15_AnyOkSucceeds ==
    (GotResponse /\ Is2xx) =>
        /\ clientResult.kind = "return"
        /\ ~result.isError

\* C15: after a 2xx response to a DELETE, or to a GET, POST or PUT whose body
\* is valid JSON, the client call has succeeded and the tool result is not
\* error-marked; a DELETE returned the void marker, the other methods the
\* parsed body.
C15_OkSucceeds ==
    (GotResponse /\ Is2xx /\ (Method = "DELETE" \/ fetched.body.parses)) =>
        /\ clientResult.kind = "return"
        /\ ~result.isError
        /\ clientResult.value =
              IF Method = "DELETE" THEN Undef ELSE fetched.body.value

C15_Witness ==
    /\ GotResponse
    /\ fetched.status = 201
    /\ Method = "PUT"
    /\ clientResult.kind = "return"
    /\ clientResult.value = nestedBody.value
    /\ ~result.isError

DeleteFamily ==
    {"delete_webhook", "delete_ci_variable", "unprotect_branch",
     "delete_group", "revoke_project_access_token", "delete_pipeline_trigger"}

SuccessMarker ==
    [isError |-> FALSE,
     text |-> <<"{", "\n", " ", " ", "\"", "status", "\"", ":", " ",
                "\"", "success", "\"", "\n", "}">>]

\* C16: after a 2xx response to a DELETE the client has attempted no read of
\* the body and returned undefined; the tools that send a DELETE are the six
\* of the delete family, and each answers {status: 'success'} whatever the
\* client returned.
C16_DeleteVoid ==
    /\ (GotResponse /\ Is2xx /\ Method = "DELETE") =>
          /\ reads = <<>>
          /\ clientResult.kind = "return"
          /\ clientResult.value = Undef
    /\ (Called /\ clientCalls # <<>>) =>
          (Method = "DELETE" <=> call.tool \in DeleteFamily)
    /\ (pc = "done" /\ call.tool \in DeleteFamily
            /\ clientResult.kind = "return") => result = SuccessMarker

C16_Witness ==
    /\ GotResponse
    /\ call.tool = "delete_pipeline_trigger"
    /\ fetched = Response(200, htmlBody)
    /\ reads = <<>>
    /\ result = SuccessMarker

\* the query string of a filter, as the remote expects it
QueryPair(k, v) ==
    <<k, "=">> \o
    CASE v = Str(<<"4", "2">>)      -> <<"4", "2">>
      [] v = Str(<<"g", "/", "p">>) -> <<"g", "%", "2", "F", "p">>
      [] v = Bool(TRUE)  -> <<"true">>
      [] v = Bool(FALSE) -> <<"false">>
      [] v = Num(0)      -> <<"0">>
      [] v = Num(7)      -> <<"7">>

ExpectedQuery(args) ==
    LET names == SelectSeq(<<"search", "owned", "min_access_level">>,
                           LAMBDA k : k \in DOMAIN args)
    IN  IF names = <<>> THEN <<>>
        ELSE <<"?">> \o Join([i \in 1..Len(names) |->
                                 QueryPair(names[i], args[names[i]])], "&")

\* C17: the URL handed to fetch is the base URL and the path, followed by
\* '?' and the encoded query exactly when the query map has an entry;
\* list_groups sends the filters the caller supplied, each in its string
\* form and in the order search, owned, min_access_level, every other tool
\* sends no query.
C17_UrlAndQuery ==
    (Called /\ client = "gitlab" /\ fetches # <<>>) =>
        /\ Len(clientCalls[1].path) > 0
        /\ SubSeq(fetches[1].url, 1, 1 + Len(clientCalls[1].path))
              = apiUrl \o clientCalls[1].path
        /\ fetches[1].url =
              apiUrl \o clientCalls[1].path
                  \o (IF call.tool = "list_groups"
                      THEN ExpectedQuery(call.args) ELSE <<>>)
        /\ call.tool = "list_groups" =>
              /\ clientCalls[1].path = <<"/", "groups">>
              /\ \A i \in 1..Len(clientCalls[1].params.fields) :
                    clientCalls[1].params.fields[i].v.t = "string"

C17_Witness ==
    /\ pc = "sent"
    /\ client = "gitlab"
    /\ call.tool = "list_groups"
    /\ fetches[1].url =
          <<"https://gitlab.com/api/v4", "/", "groups", "?",
            "search", "=", "g", "%", "2", "F", "p", "&", "owned", "=", "true">>

C17_WitnessNoQuery ==
    /\ pc = "sent"
    /\ client = "gitlab"
    /\ call.tool = "list_groups"
    /\ call.args = <<>>
    /\ fetches[1].url = <<"https://gitlab.com/api/v4", "/", "groups">>

\* JSON.stringify(value, null, 2) of the payloads the remote can send
Indented(value) ==
    CASE value = resourceBody.value ->
            <<"{", "\n", " ", " ", "\"", "id", "\"", ":", " ", "1", "\n", "}">>
      [] value = nestedBody.value ->
            <<"{", "\n", " ", " ", "\"", "id", "\"", ":", " ", "1", ",",
              "\n", " ", " ", "\"", "scopes", "\"", ":", " ", "[",
              "\n", " ", " ", " ", " ", "\"", "api", "\"",
              "\n", " ", " ", "]", "\n", "}">>
      [] value = Null -> <<"null">>
      [] value = Obj(<<[k |-> "mocked", v |-> Bool(TRUE)]>>) ->
            <<"{", "\n", " ", " ", "\"", "mocked", "\"", ":", " ", "true",
              "\n", "}">>

\* C18: when the client call of a tool that is not of the delete family has
\* succeeded, the result is not error-marked and its text is the value the
\* client returned, which for the real client is the parsed body of the
\* response, serialized with an indentation of two spaces.
C18_PassThrough ==
    (pc = "done" /\ clientResult.kind = "return"
        /\ call.tool \notin DeleteFamily) =>
        /\ client = "gitlab" => clientResult.value = fetched.body.value
        /\ result = [isError |-> FALSE, text |-> Indented(clientResult.value)]

C18_Witness ==
    /\ pc = "done"
    /\ call.tool = "create_project_access_token"
    /\ fetched = Response(201, nestedBody)
    /\ result.text = Indented(nestedBody.value)

-----------------------------------------------------------------------------
(* server.ts: the HTTP server, one McpServer and one client per session *)

\* a request header: absent, or given with a value
Absent    == [given |-> FALSE, v |-> <<>>]
Header(v) == [given |-> TRUE, v |-> v]

\* mutant: the token is never tested
missing_never(h) == FALSE

\* mutant: only an absent header counts as missing
missing_absent_only(h) == ~h.given

\* !gitlabToken: the header is absent or the empty string
missing(h) == ~h.given \/ h.v = <<>>

isInitializeRequest(body) == body = "initialize"

\* mutant: an id the tables do not hold counts as no id
noSessionId_unknown(sessionId) == TRUE

\* !sessionId: the request carries no mcp-session-id header
noSessionId(sessionId) == sessionId = 0

\* mutant: every session's client gets the credential of the process
createMcpServerWithToken_env(gitlabToken, gitlabApiUrl) ==
    [token  |-> apiToken,
     apiUrl |-> IF missing(gitlabApiUrl) THEN apiUrl ELSE gitlabApiUrl.v]

\* the McpServer of a session: its tools call a client created with
\* gitlabToken and the resolved API URL
createMcpServerWithToken(gitlabToken, gitlabApiUrl) ==
    [token  |-> gitlabToken,
     apiUrl |-> IF missing(gitlabApiUrl) THEN apiUrl ELSE gitlabApiUrl.v]

\* randomUUID(): a session id no transport has been given
sessionIdGenerator ==
    1 + Cardinality({i \in 1..Len(instances) : instances[i].sessionId # 0})

\* table[key] = value
Put(table, key, value) ==
    [s \in DOMAIN table \cup {key} |-> IF s = key THEN value ELSE table[s]]

\* mutant: closing one transport empties the table
onclose_all(table, sessionId) == <<>>

\* transport.onclose: both entries of the transport's session are deleted
onclose(table, sessionId) ==
    IF sessionId # 0
    THEN [s \in DOMAIN table \ {sessionId} |-> table[s]]
    ELSE table

\* the tools/call a session's caller sends
sessionCall == Handler("list_webhooks", [project_id |-> Str(<<"4", "2">>)])

\* the headers a caller sends: none, an empty token, or those of a tenant,
\* one on the default instance and one on an instance of its own
Anonymous == [gitlabToken |-> Absent, gitlabApiUrl |-> Absent]
TenantA   == [gitlabToken |-> Header(<<"glpat-A">>), gitlabApiUrl |-> Absent]
TenantB   == [gitlabToken |-> Header(<<"glpat-B">>),
              gitlabApiUrl |-> Header(<<"https://gitlab.example/api/v4">>)]

Callers ==
    {Anonymous, [gitlabToken |-> Header(<<>>), gitlabApiUrl |-> Absent],
     TenantA, TenantB}

Bodies == {"initialize", "tools/call"}

\* the requests a caller can send to /mcp; mcp-session-id is 0 where the
\* header is absent, and MaxSessions + 1 is an id the server never issued;
\* a request that names a session comes without headers or with TenantB's
HttpRequests ==
    {[method |-> "POST", sessionId |-> 0, gitlabToken |-> c.gitlabToken,
      gitlabApiUrl |-> c.gitlabApiUrl, body |-> b] :
        c \in Callers, b \in Bodies}
    \cup {[method |-> "POST", sessionId |-> s, gitlabToken |-> c.gitlabToken,
           gitlabApiUrl |-> c.gitlabApiUrl, body |-> b] :
            s \in 1..(MaxSessions + 1), c \in {Anonymous, TenantB}, b \in Bodies}
    \cup {[method |-> m, sessionId |-> s, gitlabToken |-> Absent,
           gitlabApiUrl |-> Absent, body |-> "none"] :
            m \in {"GET", "DELETE"}, s \in 0..(MaxSessions + 1)}

Awaiting(req, transport) ==
    [req |-> req, transport |-> transport, stage |-> "handling", fetch |-> <<>>]

\* app.post('/mcp'), up to its first await
PostMcp(req) ==
    /\ req.method = "POST"
    /\ IF req.sessionId # 0 /\ req.sessionId \in DOMAIN transports
       THEN /\ Cardinality(inflight) < MaxInflight
            /\ inflight' = inflight \cup {Awaiting(req, transports[req.sessionId])}
            /\ UNCHANGED <<transports, sessionTokens, instances, res>>
       ELSE IF noSessionId(req.sessionId) /\ isInitializeRequest(req.body)
       THEN IF missing(req.gitlabToken)
            THEN /\ res' = Reply(401, req)
                 /\ UNCHANGED <<transports, sessionTokens, instances, inflight>>
            ELSE /\ Cardinality(inflight) < MaxInflight
                 /\ Len(instances) < MaxSessions
                 /\ instances' =
                       Append(instances,
                              [req |-> req,
                               server |-> createMcpServerWithToken(
                                              req.gitlabToken.v, req.gitlabApiUrl),
                               sessionId |-> 0,
                               closed |-> FALSE])
                 /\ inflight' = inflight \cup {Awaiting(req, Len(instances) + 1)}
                 /\ UNCHANGED <<transports, sessionTokens, res>>
       ELSE /\ res' = Reply(400, req)
            /\ UNCHANGED <<transports, sessionTokens, instances, inflight>>
    /\ UNCHANGED <<toolVars, auxVars>>

\* transport.handleRequest(req, res, req.body) of a POST: an initialize
\* request gives the transport its session id and runs onsessioninitialized;
\* a tools/call runs the tool of the transport's server up to its fetch
HandleRequest(r) ==
    /\ r \in inflight
    /\ r.stage = "handling"
    /\ LET inst == instances[r.transport]
       IN  IF isInitializeRequest(r.req.body)
           THEN IF inst.sessionId # 0
                THEN /\ res' = Reply(400, r.req)
                     /\ inflight' = inflight \ {r}
                     /\ UNCHANGED <<transports, sessionTokens, instances>>
                ELSE LET newSessionId == sessionIdGenerator
                     IN  /\ instances' = [instances EXCEPT
                                             ![r.transport].sessionId = newSessionId]
                         /\ transports' = Put(transports, newSessionId, r.transport)
                         /\ sessionTokens' =
                               Put(sessionTokens, newSessionId,
                                   inst.req.gitlabToken.v)
                         /\ res' = Reply(200, r.req)
                         /\ inflight' = inflight \ {r}
           ELSE \/ /\ inst.closed      \* a closed transport may refuse
                   /\ res' = Reply(404, r.req)
                   /\ inflight' = inflight \ {r}
                   /\ UNCHANGED <<transports, sessionTokens, instances>>
                \/ /\ r.req.body = "tools/call"
                   /\ inflight' =
                         (inflight \ {r}) \cup
                         {[r EXCEPT
                             !.stage = "calling",
                             !.fetch = fetchCalls(
                                 request(inst.server.apiUrl, inst.server.token,
                                         sessionCall.method, sessionCall.path,
                                         sessionCall.body, sessionCall.params))]}
                   /\ UNCHANGED <<transports, sessionTokens, instances, res>>
    /\ UNCHANGED <<toolVars, auxVars>>

\* the fetch of a tool call settles and the tool result is sent
ToolCallSettles(r) ==
    /\ r \in inflight
    /\ r.stage = "calling"
    /\ res' = Reply(200, r.req)
    /\ inflight' = inflight \ {r}
    /\ UNCHANGED <<transports, sessionTokens, instances>>
    /\ UNCHANGED <<toolVars, auxVars>>

\* app.get('/mcp')
GetMcp(req) ==
    /\ req.method = "GET"
    /\ res' = IF noSessionId(req.sessionId) \/ req.sessionId \notin DOMAIN transports
              THEN Reply(400, req)
              ELSE Reply(200, req)
    /\ UNCHANGED <<transports, sessionTokens, instances, inflight>>
    /\ UNCHANGED <<toolVars, auxVars>>

\* app.delete('/mcp'): the transport ends the session and closes
DeleteMcp(req) ==
    /\ req.method = "DELETE"
    /\ IF noSessionId(req.sessionId) \/ req.sessionId \notin DOMAIN transports
       THEN /\ res' = Reply(400, req)
            /\ UNCHANGED <<transports, sessionTokens, instances>>
       ELSE LET t == transports[req.sessionId]
            IN  /\ instances' = [instances EXCEPT ![t].closed = TRUE]
                /\ transports' = onclose(transports, instances[t].sessionId)
                /\ sessionTokens' = onclose(sessionTokens, instances[t].sessionId)
                /\ res' = Reply(200, req)
    /\ UNCHANGED inflight
    /\ UNCHANGED <<toolVars, auxVars>>

HttpInit ==
    /\ client = "gitlab"
    /\ apiToken = <<"glpat-A">>
    /\ pc = "idle"
    /\ call = NoCall
    /\ clientCalls = <<>>
    /\ fetches = <<>>
    /\ fetched = NoOutcome
    /\ clientResult = NoSettle
    /\ reads = <<>>
    /\ result = NoResult
    /\ HttpIdle
    /\ AuxIdle

HttpNext ==
    \/ \E req \in HttpRequests : PostMcp(req)
    \/ \E r \in inflight : HandleRequest(r)
    \/ \E r \in inflight : ToolCallSettles(r)
    \/ \E req \in HttpRequests : GetMcp(req)
    \/ \E req \in HttpRequests : DeleteMcp(req)

HttpSpec == HttpInit /\ [][HttpNext]_vars

NoTokenHeader(req) == ~req.gitlabToken.given \/ req.gitlabToken.v = <<>>

SessionState == <<transports, sessionTokens, instances, inflight>>

C20_SessionCredential ==
    \A r \in inflight :
        r.stage = "calling" =>
            /\ Len(r.fetch) = 1
            /\ \E i \in 1..Len(instances) :
                  instances[i].sessionId = r.req.sessionId
            /\ \A i \in 1..Len(instances) :
                  instances[i].sessionId = r.req.sessionId =>
                      /\ instances[i].req.body = "initialize"
                      /\ r.fetch[1].headers["PRIVATE-TOKEN"]
                            = instances[i].req.gitlabToken.v

\* two sessions with different credentials have a call in flight each, one
\* of them sent with the other session's token in its header
C20_Witness ==
    \E r1, r2 \in inflight :
        /\ r1.stage = "calling" /\ r2.stage = "calling"
        /\ r1.req.sessionId # r2.req.sessionId
        /\ r1.fetch[1].headers["PRIVATE-TOKEN"] = <<"glpat-A">>
        /\ r2.fetch[1].headers["PRIVATE-TOKEN"] = <<"glpat-B">>
        /\ r1.req.gitlabToken = Header(<<"glpat-B">>)

Sessions == DOMAIN transports

\* C21: when DELETE /mcp closes the transport of session S, S is removed
\* from the transport table and from the token table, and every other
\* session keeps its transport and its token.
C21_CloseRemovesSession ==
    [][\A req \in HttpRequests :
          (DeleteMcp(req) /\ req.sessionId \in Sessions) =>
              /\ DOMAIN transports' = DOMAIN transports \ {req.sessionId}
              /\ DOMAIN sessionTokens' = DOMAIN sessionTokens \ {req.sessionId}
              /\ \A s \in DOMAIN transports' : transports'[s] = transports[s]
              /\ \A s \in DOMAIN sessionTokens' :
                    sessionTokens'[s] = sessionTokens[s]]_vars

\* session 1 has been closed while session 2 stays
C21_Witness ==
    /\ res = Reply(200, [method |-> "DELETE"])
    /\ Len(instances) = 2
    /\ instances[1].sessionId = 1 /\ instances[1].closed
    /\ DOMAIN transports = {2}
    /\ DOMAIN sessionTokens = {2}
    /\ sessionTokens[2] = <<"glpat-B">>

-----------------------------------------------------------------------------
(* Concurrent tool invocations on one server *)

MaxConcurrent == 2

\* the calls that arrive while others are in flight: two of one tool with
\* different arguments, one of another tool, one the schema rejects
ConcCalls ==
    {[tool |-> "list_webhooks", args |-> [project_id |-> Str(<<"4", "2">>)]],
     [tool |-> "list_webhooks",
      args |-> [project_id |-> Str(<<"g", "/", "p">>)]],
     [tool |-> "create_group",
      args |-> [name |-> Str(<<"x">>), path |-> Str(<<"x">>)]],
     [tool |-> "delete_group", args |-> [group_id |-> Str(<<"7">>)]]}

ConcOutcomes ==
    {Response(200, resourceBody), Response(201, nestedBody),
     Response(404, messageBody),
     Reject(JsError("TypeError", <<"fetch failed">>))}

\* what fetch resolves with: the outcome of the request of invocation `to`
Answer(to, outcome) == [to |-> to, outcome |-> outcome]
NoAnswer == Answer(0, NoOutcome)

\* the locals of one run of the tool callback and of request()
Invocation(c) ==
    [tool |-> c.tool, args |-> c.args, stage |-> "received",
     clientCalls |-> <<>>, fetches |-> <<>>, answer |-> NoAnswer,
     result |-> NoResult]

\* mutant: the response is kept where every pending call reads it
settled_shared(invs, i, answer) ==
    [j \in DOMAIN invs |->
        IF invs[j].stage = "sent"
        THEN [invs[j] EXCEPT
                 !.stage = "done",
                 !.answer = answer,
                 !.result = HandlerSettle(invs[j].tool,
                                requestSettle(invs[j].clientCalls[1].method,
                                              answer.outcome))]
        ELSE invs[j]]

\* request() of invocation i resumes with what its own await fetch gave;
\* url, init and response are locals of that call
settled(invs, i, answer) ==
    [invs EXCEPT
        ![i] = [invs[i] EXCEPT
                   !.stage = "done",
                   !.answer = answer,
                   !.result = HandlerSettle(invs[i].tool,
                                  requestSettle(invs[i].clientCalls[1].method,
                                                answer.outcome))]]

\* a tools/call message arrives while others are in flight
Invoke(c) ==
    /\ Len(invocations) < MaxConcurrent
    /\ invocations' = Append(invocations, Invocation(c))
    /\ UNCHANGED <<toolVars, httpVars, validation>>

\* the arguments of invocation i are validated and, when valid, its
\* callback runs up to its await fetch
Validate(i) ==
    /\ invocations[i].stage = "received"
    /\ LET v == invocations[i]
           parsed == safeParse(Schema[v.tool], v.args)
       IN  IF parsed.success
           THEN LET c == Handler(v.tool, parsed.data)
                IN  invocations' =
                        [invocations EXCEPT
                            ![i] = [v EXCEPT
                                !.stage = "sent",
                                !.clientCalls = <<c>>,
                                !.fetches =
                                    fetchCalls(request(apiUrl, apiToken,
                                                       c.method, c.path,
                                                       c.body, c.params))]]
           ELSE invocations' =
                    [invocations EXCEPT
                        ![i] = [v EXCEPT !.stage = "done",
                                         !.result = invalidArguments(v.tool)]]
    /\ UNCHANGED <<toolVars, httpVars, validation>>

\* fetch of invocation i settles with outcome o
Respond(i, o) ==
    /\ invocations[i].stage = "sent"
    /\ invocations' = settled(invocations, i, Answer(i, o))
    /\ UNCHANGED <<toolVars, httpVars, validation>>

ConcNext ==
    \/ \E c \in ConcCalls : Invoke(c)
    \/ \E i \in 1..Len(invocations) : Validate(i)
    \/ \E i \in 1..Len(invocations) : \E o \in ConcOutcomes : Respond(i, o)

ConcSpec == HttpInit /\ [][ConcNext]_vars

\* invocation i is as its own arguments and its own response make it
OwnOnly(i) ==
    LET v == invocations[i]
        parsed == safeParse(Schema[v.tool], v.args)
        c == Handler(v.tool, parsed.data)
    IN  /\ v.stage = "received" =>
              v.fetches = <<>> /\ v.answer = NoAnswer /\ v.result = NoResult
        /\ (v.stage # "received" /\ parsed.success) =>
              v.fetches = <<request(apiUrl, apiToken, c.method, c.path,
                                    c.body, c.params)>>
        /\ v.stage = "sent" => v.answer = NoAnswer /\ v.result = NoResult
        /\ (v.stage = "done" /\ parsed.success) =>
              /\ v.answer.to = i
              /\ v.result = HandlerSettle(v.tool,
                                requestSettle(c.method, v.answer.outcome))
        /\ (v.stage = "done" /\ ~parsed.success) =>
              /\ v.fetches = <<>>
              /\ v.answer = NoAnswer
              /\ v.result = invalidArguments(v.tool)

\* C22: with several invocations in flight on one server, in any
\* interleaving of their validation and send steps and of the responses,
\* each request is built from the arguments of its own invocation only,
\* each result comes from the response to its own request only, and a step
\* of one invocation leaves every other invocation as it was.
C22_InvocationsIndependent ==
    /\ [](\A i \in 1..Len(invocations) : OwnOnly(i))
    /\ [][\A i \in 1..Len(invocations) :
             (Validate(i) \/ \E o \in ConcOutcomes : Respond(i, o)) =>
                 \A j \in 1..Len(invocations) :
                     j # i => invocations'[j] = invocations[j]]_vars

\* the two list_webhooks calls are in flight together and the second is
\* answered first, each with its own project in its url
C22_Witness ==
    /\ Len(invocations) = 2
    /\ invocations[1].stage = "sent"
    /\ invocations[1].fetches[1].url =
           <<"https://gitlab.com/api/v4", "/", "projects", "/", "4", "2",
             "/", "hooks">>
    /\ invocations[2].stage = "done"
    /\ invocations[2].tool = "list_webhooks"
    /\ invocations[2].fetches[1].url =
           <<"https://gitlab.com/api/v4", "/", "projects", "/", "g", "%", "2",
             "F", "p", "/", "hooks">>
    /\ invocations[2].answer = Answer(2, Response(404, messageBody))
    /\ invocations[2].result.text =
           <<"GitLab API error ", "404", ": ", "404 Project Not Found">>

-----------------------------------------------------------------------------
(* Tool registration *)

\* the names each register function hands to server.tool, in order
registerWebhookTools ==
    <<"create_webhook", "list_webhooks", "update_webhook", "delete_webhook",
      "test_webhook">>

registerCiVariableTools ==
    <<"create_ci_variable", "list_ci_variables", "update_ci_variable",
      "delete_ci_variable">>

registerProtectedBranchTools ==
    <<"protect_branch", "list_protected_branches", "unprotect_branch">>

registerProjectSettingsTools == <<"update_project_settings">>

\* mutant: the group domain without its listing tool
registerGroupTools_two == <<"create_group", "delete_group">>

registerGroupTools == <<"create_group", "list_groups", "delete_group">>

registerAccessTokenTools ==
    <<"create_project_access_token", "list_project_access_tokens",
      "revoke_project_access_token">>

registerPipelineTriggerTools ==
    <<"create_pipeline_trigger", "list_pipeline_triggers",
      "delete_pipeline_trigger">>

\* the register functions registerAllTools calls, in order
ToolDomains ==
    <<registerWebhookTools, registerCiVariableTools,
      registerProtectedBranchTools, registerProjectSettingsTools,
      registerGroupTools, registerAccessTokenTools,
      registerPipelineTriggerTools>>

\* registerAllTools: every server.tool call it makes, in order
registerAllTools ==
    LET RECURSIVE flat(_)
        flat(ds) == IF ds = <<>> THEN <<>> ELSE Head(ds) \o flat(Tail(ds))
    IN  flat(ToolDomains)

Registered == {registerAllTools[i] : i \in 1..Len(registerAllTools)}

-----------------------------------------------------------------------------
(* Access levels *)

AccessLevelParams ==
    [protect_branch |-> {"push_access_level", "merge_access_level"},
     create_project_access_token |-> {"access_level"},
     list_groups |-> {"min_access_level"}]

\* every argument of the call but k passes the schema
OthersValid(k) ==
    \A j \in DOMAIN Schema[call.tool] \ {k} :
        zodFieldOk(Schema[call.tool][j], call.args, j)

DecimalText(v) == IF v = Num(0) THEN <<"0">> ELSE <<"7">>

\* C24: a number given as push_access_level or merge_access_level of
\* protect_branch, access_level of create_project_access_token or
\* min_access_level of list_groups is accepted whatever its value, the
\* documented levels and any other alike, and reaches the client as it was
\* supplied: in the body, or for list_groups as its decimal text in the query.
C24_AccessLevelsUnrestricted ==
    (Called /\ call.tool \in DOMAIN AccessLevelParams) =>
        \A k \in AccessLevelParams[call.tool] :
            (/\ k \in DOMAIN call.args
             /\ call.args[k].t = "number"
             /\ OthersValid(k)) =>
                /\ ~Rejected
                /\ Len(clientCalls) = 1
                /\ IF call.tool = "list_groups"
                   THEN \E i \in 1..Len(clientCalls[1].params.fields) :
                           clientCalls[1].params.fields[i] =
                               [k |-> k, v |-> Str(DecimalText(call.args[k]))]
                   ELSE InBody(k, call.args[k])

\* protect_branch is sent with the undocumented level 7 for push and the
\* level 0 for merge, both in its body
C24_Witness ==
    /\ pc = "sent"
    /\ call.tool = "protect_branch"
    /\ {"push_access_level", "merge_access_level"} \subseteq DOMAIN call.args
    /\ call.args["push_access_level"] = Num(7)
    /\ call.args["merge_access_level"] = Num(0)
    /\ InBody("push_access_level", Num(7))
    /\ InBody("merge_access_level", Num(0))

-----------------------------------------------------------------------------
(* The cause of a connection error *)

\* C28: when fetch rejects, whatever the method, the client raises a
\* GitLabConnectionError; its cause is the rejected Error itself when an
\* Error was raised, and otherwise a plain Error whose message is the string
\* form of the value raised.
C28_ConnectionCause ==
    (pc = "done" /\ client = "gitlab" /\ fetched.kind = "reject") =>
        /\ Raised("GitLabConnectionError")
        /\ IF fetched.thrown.cls # "nonError"
           THEN clientResult.error.cause =
                    [cls |-> fetched.thrown.cls,
                     message |-> fetched.thrown.message]
           ELSE clientResult.error.cause =
                    [cls |-> "Error",
                     message |-> IF fetched.thrown.value = Null
                                 THEN <<"null">> ELSE <<"timeout">>]

\* a DELETE whose fetch rejected with null, and the Error made of it
C28_Witness ==
    /\ pc = "done"
    /\ client = "gitlab"
    /\ Len(clientCalls) = 1
    /\ clientCalls[1].method = "DELETE"
    /\ fetched = Reject(NonError(Null))
    /\ clientResult.error.cls = "GitLabConnectionError"
    /\ clientResult.error.cause = [cls |-> "Error", message |-> <<"null">>]

\* a POST whose fetch rejected with a TypeError, kept as the cause
C28_WitnessError ==
    /\ pc = "done"
    /\ client = "gitlab"
    /\ Len(clientCalls) = 1
    /\ clientCalls[1].method = "POST"
    /\ fetched = Reject(JsError("TypeError", <<"fetch failed">>))
    /\ clientResult.error.cause =
           [cls |-> "TypeError", message |-> <<"fetch failed">>]

-----------------------------------------------------------------------------
(* Requests for a session the server does not hold *)

UnknownSession(req) == req.sessionId # 0 /\ req.sessionId \notin Sessions

-----------------------------------------------------------------------------
(* The two session tables *)

\* C30: in every reachable state the transport table and the token table
\* hold the same session ids, and the token stored for a session is the
\* non-empty X-GitLab-Token of the initialize request that created it.
C30_TablesAgree ==
    /\ DOMAIN transports = DOMAIN sessionTokens
    /\ \A s \in DOMAIN sessionTokens :
          /\ sessionTokens[s] # <<>>
          /\ transports[s] \in 1..Len(instances)
          /\ instances[transports[s]].sessionId = s
          /\ instances[transports[s]].req.body = "initialize"
          /\ instances[transports[s]].req.gitlabToken.given
          /\ sessionTokens[s] = instances[transports[s]].req.gitlabToken.v

\* two sessions are held, opened with different tokens
C30_Witness ==
    /\ DOMAIN transports = {1, 2}
    /\ DOMAIN sessionTokens = {1, 2}
    /\ sessionTokens[1] = <<"glpat-B">>
    /\ sessionTokens[2] = <<"glpat-A">>
    /\ instances[transports[2]].req.gitlabToken = Header(<<"glpat-A">>)

-----------------------------------------------------------------------------
(* validation.ts *)

\* typeof value
typeof(v) ==
    IF v.t \in {"string", "number", "boolean", "undefined"} THEN v.t
    ELSE "object"

\* an array whose elements may be of any type
List(items) ==
    [t |-> "array", s |-> <<>>, n |-> 0, a |-> <<>>,
     o |-> [i \in 1..Len(items) |-> [k |-> ToString(i - 1), v |-> items[i]]]]

\* the elements of an array value
Elements(v) ==
    [i \in 1..Len(v.a) |-> Str(v.a[i])] \o [i \in 1..Len(v.o) |-> v.o[i].v]

\* mutant: any falsy value counts as missing
requireParam_truthy(params, name) ==
    LET value == Arg(params, name)
    IN  IF \/ value.t \in {"undefined", "null"}
           \/ value \in {Num(0), Str(<<>>), Bool(FALSE)}
        THEN throws(ValidationError(name,
                        <<"Missing required parameter: ", name>>))
        ELSE returns(value)

requireParam(params, name) ==
    LET value == Arg(params, name)
    IN  IF value.t = "undefined" \/ value.t = "null"
        THEN throws(ValidationError(name,
                        <<"Missing required parameter: ", name>>))
        ELSE returns(value)

\* const value = requireParam(params, name), then the typeof test
requireTyped(params, name, type) ==
    LET got == requireParam(params, name)
    IN  IF got.kind = "throw" THEN got
        ELSE IF typeof(got.value) # type
        THEN throws(ValidationError(name,
                        <<"Parameter '", name, "' must be a ", type>>))
        ELSE got

requireString(params, name) == requireTyped(params, name, "string")

requireNumber(params, name) == requireTyped(params, name, "number")

\* undefined for an absent or null value, then the typeof test
optionalTyped(params, name, type) ==
    LET value == Arg(params, name)
    IN  IF value.t = "undefined" \/ value.t = "null" THEN returns(Undef)
        ELSE IF typeof(value) # type
        THEN throws(ValidationError(name,
                        <<"Parameter '", name, "' must be a ", type>>))
        ELSE returns(value)

optionalString(params, name) == optionalTyped(params, name, "string")

optionalNumber(params, name) == optionalTyped(params, name, "number")

optionalBoolean(params, name) == optionalTyped(params, name, "boolean")

\* values.includes(value)
includes(values, value) == \E i \in 1..Len(values) : values[i] = value

mustBeOneOf(name, values) ==
    ValidationError(name, <<"Parameter '", name, "' must be one of: ">>
                              \o Join(values, ", "))

requireEnum(params, name, values) ==
    LET got == requireString(params, name)
    IN  IF got.kind = "throw" THEN got
        ELSE IF ~includes(values, got.value.s)
        THEN throws(mustBeOneOf(name, values))
        ELSE got

\* mutant: the string is returned without the membership test
optionalEnum_unchecked(params, name, values) == optionalString(params, name)

optionalEnum(params, name, values) ==
    LET got == optionalString(params, name)
    IN  IF got.kind = "throw" THEN got
        ELSE IF got.value.t = "undefined" THEN returns(Undef)
        ELSE IF ~includes(values, got.value.s)
        THEN throws(mustBeOneOf(name, values))
        ELSE got

\* mutant: any array passes
optionalStringArray_any_array(params, name) ==
    LET value == Arg(params, name)
    IN  IF value.t = "undefined" \/ value.t = "null" THEN returns(Undef)
        ELSE IF value.t # "array"
        THEN throws(ValidationError(name,
                        <<"Parameter '", name, "' must be an array of strings">>))
        ELSE returns(value)

optionalStringArray(params, name) ==
    LET value == Arg(params, name)
    IN  IF value.t = "undefined" \/ value.t = "null" THEN returns(Undef)
        ELSE IF \/ value.t # "array"
                \/ ~\A i \in 1..Len(Elements(value)) :
                       typeof(Elements(value)[i]) = "string"
        THEN throws(ValidationError(name,
                        <<"Parameter '", name, "' must be an array of strings">>))
        ELSE returns(value)

RequireFns  == {"requireParam", "requireString", "requireNumber"}
OptionalFns == {"optionalString", "optionalNumber", "optionalBoolean",
                "optionalStringArray"}
EnumFns     == {"requireEnum", "optionalEnum"}

\* the exported function called
Validator(fn, params, name, values) ==
    CASE fn = "requireParam"        -> requireParam(params, name)
      [] fn = "requireString"       -> requireString(params, name)
      [] fn = "requireNumber"       -> requireNumber(params, name)
      [] fn = "optionalString"      -> optionalString(params, name)
      [] fn = "optionalNumber"      -> optionalNumber(params, name)
      [] fn = "optionalBoolean"     -> optionalBoolean(params, name)
      [] fn = "optionalStringArray" -> optionalStringArray(params, name)
      [] fn = "requireEnum"         -> requireEnum(params, name, values)
      [] fn = "optionalEnum"        -> optionalEnum(params, name, values)

\* the field names asked for and the values a caller may have put there
ParamNames == {"visibility", "scopes"}

ParamValues ==
    {Undef, Null, Str(<<>>), Str(<<"x">>), Str(<<"private">>),
     Str(<<"Private">>), Num(0), Num(7), Bool(FALSE), Bool(TRUE),
     Arr(<<>>), Arr(<<<<"api">>, <<"read_api">>>>),
     List(<<Str(<<"api">>), Num(7)>>), List(<<Null>>), Obj(<<>>)}

\* the argument objects: any of the names present, each with any value
ParamObjects ==
    UNION {[S -> ParamValues] : S \in SUBSET ParamNames}

EnumLists ==
    {<<<<"private">>, <<"internal">>, <<"public">>>>, <<<<"x">>>>}

\* the calls made of the validators
ValidatorCalls ==
    {[fn |-> fn, params |-> params, name |-> name, values |-> <<>>] :
        fn \in RequireFns \cup OptionalFns, params \in ParamObjects,
        name \in ParamNames}
    \cup
    {[fn |-> fn, params |-> params, name |-> name, values |-> values] :
        fn \in EnumFns, params \in ParamObjects, name \in ParamNames,
        values \in EnumLists}

\* one call of a validator, before it runs
ValidatorInit ==
    /\ client = "gitlab"
    /\ apiToken = <<"glpat-A">>
    /\ pc = "idle"
    /\ call = NoCall
    /\ clientCalls = <<>>
    /\ fetches = <<>>
    /\ fetched = NoOutcome
    /\ clientResult = NoSettle
    /\ reads = <<>>
    /\ result = NoResult
    /\ HttpIdle
    /\ invocations = <<>>
    /\ validation \in {[call |-> c, out |-> NoSettle] : c \in ValidatorCalls}

\* the validator runs to its return or its throw
Validates ==
    /\ validation.out = NoSettle
    /\ validation' =
           [validation EXCEPT
               !.out = Validator(validation.call.fn, validation.call.params,
                                 validation.call.name, validation.call.values)]
    /\ UNCHANGED <<toolVars, httpVars, invocations>>

RequireCall == validation.call.fn \in RequireFns /\ Validates

OptionalCall == validation.call.fn \in OptionalFns /\ Validates

EnumCall == validation.call.fn \in EnumFns /\ Validates

ValidatorNext == RequireCall \/ OptionalCall \/ EnumCall

ValidatorSpec == ValidatorInit /\ [][ValidatorNext]_vars

\* the validator has returned or thrown
Validated == validation.out # NoSettle

\* the value under the requested name, and what the call made of it
Requested ==
    IF validation.call.name \in DOMAIN validation.call.params
    THEN validation.call.params[validation.call.name]
    ELSE Undef

MissingOrNull == Requested.t \in {"undefined", "null"}

Returned(v) == validation.out.kind = "return" /\ validation.out.value = v

FailedOnField ==
    /\ validation.out.kind = "throw"
    /\ validation.out.error.cls = "ValidationError"
    /\ validation.out.error.paramName = validation.call.name

\* C25: requireParam fails, with a ValidationError naming the requested
\* field, exactly when the value is missing, undefined or null, and returns
\* every other value unchanged, 0, "" and false included; requireString and
\* requireNumber fail, the same way, exactly when requireParam fails or the
\* value is not of their type, and otherwise return it.
C25_RequireValidators ==
    LET fn == validation.call.fn
        wrong == \/ MissingOrNull
                 \/ fn = "requireString" /\ Requested.t # "string"
                 \/ fn = "requireNumber" /\ Requested.t # "number"
    IN  (Validated /\ fn \in RequireFns) =>
            IF wrong THEN FailedOnField ELSE Returned(Requested)

\* requireParam was asked for visibility in {visibility: 0, scopes: null}
\* and returned 0
C25_Witness ==
    /\ validation.call.fn = "requireParam"
    /\ validation.call.name = "visibility"
    /\ validation.call.params =
           [k \in {"visibility", "scopes"} |->
               IF k = "visibility" THEN Num(0) ELSE Null]
    /\ validation.out = returns(Num(0))

\* requireNumber refused the empty string under scopes
C25_WitnessFails ==
    /\ validation.call.fn = "requireNumber"
    /\ validation.call.name = "scopes"
    /\ Requested = Str(<<>>)
    /\ validation.out.kind = "throw"
    /\ validation.out.error.paramName = "scopes"
    /\ validation.out.error.message =
           <<"Parameter '", "scopes", "' must be a ", "number">>

DeclaredType ==
    CASE validation.call.fn = "optionalString"  -> Requested.t = "string"
      [] validation.call.fn = "optionalNumber"  -> Requested.t = "number"
      [] validation.call.fn = "optionalBoolean" -> Requested.t = "boolean"
      [] validation.call.fn = "optionalStringArray" ->
            /\ Requested.t = "array"
            /\ \A i \in 1..Len(Requested.o) : Requested.o[i].v.t = "string"
      [] OTHER -> FALSE

\* C26: optionalString, optionalNumber, optionalBoolean and
\* optionalStringArray return undefined exactly when the value is missing,
\* undefined or null; any other value is returned unchanged when it has the
\* declared type (an array of strings, the empty array included) and is
\* otherwise refused with a ValidationError naming the requested field.
C26_OptionalValidators ==
    (Validated /\ validation.call.fn \in OptionalFns) =>
        /\ Returned(Undef) <=> MissingOrNull
        /\ ~MissingOrNull =>
              IF DeclaredType THEN Returned(Requested) ELSE FailedOnField

\* optionalStringArray returned the empty array it was given
C26_Witness ==
    /\ validation.call.fn = "optionalStringArray"
    /\ validation.call.name = "scopes"
    /\ Requested = Arr(<<>>)
    /\ validation.out = returns(Arr(<<>>))

\* optionalStringArray refused an array holding a number
C26_WitnessFails ==
    /\ validation.call.fn = "optionalStringArray"
    /\ validation.call.name = "scopes"
    /\ Requested = List(<<Str(<<"api">>), Num(7)>>)
    /\ validation.out.kind = "throw"
    /\ validation.out.error.paramName = "scopes"

IsMember ==
    /\ Requested.t = "string"
    /\ \E i \in 1..Len(validation.call.values) :
          validation.call.values[i] = Requested.s

\* C27: requireEnum and optionalEnum return the value exactly when it is a
\* string equal, case included, to one of the declared values; for a
\* missing or null value requireEnum fails and optionalEnum returns
\* undefined; every failure is a ValidationError naming the requested field.
C27_EnumValidators ==
    (Validated /\ validation.call.fn \in EnumFns) =>
        IF IsMember THEN Returned(Requested)
        ELSE IF MissingOrNull /\ validation.call.fn = "optionalEnum"
        THEN Returned(Undef)
        ELSE FailedOnField

\* optionalEnum refused Private where private is declared
C27_Witness ==
    /\ validation.call.fn = "optionalEnum"
    /\ validation.call.name = "visibility"
    /\ Requested = Str(<<"Private">>)
    /\ validation.out.kind = "throw"
    /\ validation.out.error.paramName = "visibility"
    /\ validation.out.error.message =
           <<"Parameter '", "visibility", "' must be one of: ",
             "private", ", ", "internal", ", ", "public">>

====
